---- MODULE Spec2Model ----
(***************************************************************************)
(* Alert correlation and escalation of the SAMS monitoring repository.     *)
(*                                                                         *)
(* Two classes are modelled, each from its own source file:                *)
(*   AlertCorrelationEngine  (poc/alert-correlation-engine/alert_engine.py)*)
(*   AlertEscalationSystem   (scripts/monitoring/alert_escalation_system.py)*)
(* They share no state.  The variable component says which of the two a    *)
(* behaviour instantiates; SpecEngine and SpecEsc run one class each and   *)
(* Spec runs either.                                                       *)
(***************************************************************************)
EXTENDS Integers, Sequences, FiniteSets, TLC

VARIABLES
  component,            \* which class this behaviour instantiates
  clock,                \* wall clock in seconds (datetime.now(), time.time())
  ncalls,               \* calls made so far, per kind (bounds the behaviour)
  last,                 \* the last call: its arguments and what it returned
  \* ---- AlertCorrelationEngine
  correlation_rules,    \* self.correlation_rules: list of CorrelationRule
  active_alerts,        \* self.active_alerts: dict id -> Alert, in insertion order
  correlation_groups,   \* self.correlation_groups: correlation id -> list of alert ids
  suppression_windows,  \* self.suppression_windows: "server:type" -> expiry
  alert_history,        \* table alert_history: (alert_id, action) rows, append-only
  db_alerts,            \* table alerts: id -> row (INSERT OR REPLACE)
  \* ---- AlertEscalationSystem
  alert_objects,        \* every Alert object create_alert has made, with the
                        \* _escalation_monitor task started for it (if any)
  alerts,               \* self.alerts: dict id -> Alert (an index of alert_objects)
  escalation_tasks,     \* self.escalation_tasks: dict id -> Task (the index of its Alert)
  escalation_history,   \* table escalation_history, append-only
  persisted,            \* table alerts of the escalation system: id -> row
  \* ---- AlertEscalationSystem._escalate_alert on its own
  dispatch,             \* the alert, the rule's contacts, and what the call has done
  \* ---- the delay of AlertEscalationSystem._escalation_monitor on its own
  monitor               \* the alert, the rule, and the delay computed last

engineVars == <<correlation_rules, active_alerts, correlation_groups,
                suppression_windows, alert_history, db_alerts>>
escVars == <<alert_objects, alerts, escalation_tasks, escalation_history, persisted>>
vars == <<component, clock, ncalls, last, engineVars, escVars, dispatch, monitor>>

(***************************************************************************)
(* Bounds of the model.                                                    *)
(***************************************************************************)
MaxCalls == 3       \* calls (ingest, acknowledge, resolve) in one behaviour
MaxTicks == 2       \* clock advances in one behaviour
MaxCreates == 2     \* create_alert calls in one behaviour
MaxContacts == 2    \* contacts of the rule in SpecDispatch
MaxDispatchTicks == 2    \* _escalate_alert calls in one behaviour of SpecDispatch
MaxLevel == 4       \* levels _get_contacts_for_level is compared at
MaxFrequencyCalls == 4   \* calls in one behaviour of SpecFrequency
MaxRuleCalls == 2   \* process_alert calls in one behaviour of SpecRules
PastOffset == 200   \* seconds by which a payload of SpecWindow may be back-dated
FrequencyStep == 350     \* seconds the clock of SpecFrequency advances at a time
TimeStep == 300     \* seconds the clock advances at a time

\* the payloads of SpecEngine are drawn from these
Servers == {"srv-001"}
AlertTypes == {"cpu_high", "disk_space_low"}
InSeverities == {"warning", "emergency"}

NoValue == "None"
NoCorrelation == <<>>    \* correlation_id = None

(***************************************************************************)
(* Helpers on sequences.                                                   *)
(***************************************************************************)
Range(s) == {s[i] : i \in DOMAIN s}
Min(S) == CHOOSE x \in S : \A y \in S : x <= y

RECURSIVE SeqOfSet(_)
\* the numbers of S in ascending order
SeqOfSet(S) == IF S = {} THEN <<>> ELSE <<Min(S)>> \o SeqOfSet(S \ {Min(S)})

RemoveAt(s, i) == SubSeq(s, 1, i - 1) \o SubSeq(s, i + 1, Len(s))

\* the function f on 1..n as the tuple of its values
AsSeq(f) == <<>> \o f

(***************************************************************************)
(* AlertCorrelationEngine: data.                                           *)
(***************************************************************************)
\* severity_order of _escalate_alert_severity
severity_order == <<"info", "warning", "critical", "emergency">>
SevIndex(sev) == CHOOSE i \in DOMAIN severity_order : severity_order[i] = sev

SuppressionSeconds == 600

\* _load_default_rules
default_rules == <<
  [id |-> "cpu-memory-correlation",
   conditions |-> [alert_types |-> {"cpu_high", "memory_high"},
                   time_window |-> 300, same_server |-> TRUE],
   actions |-> {"create_correlation", "escalate_severity", "suppress_duplicates"},
   enabled |-> TRUE, priority |-> 1],
  [id |-> "network-connectivity",
   conditions |-> [alert_types |-> {"network_down", "connection_timeout", "dns_failure"},
                   time_window |-> 180, minimum_count |-> 2],
   actions |-> {"create_correlation", "escalate_severity", "notify_network_team"},
   enabled |-> TRUE, priority |-> 1],
  [id |-> "disk-space-escalation",
   conditions |-> [alert_types |-> {"disk_space_low"},
                   time_window |-> 600, frequency_threshold |-> 3],
   actions |-> {"escalate_severity", "suppress_duplicates", "create_maintenance_ticket"},
   enabled |-> TRUE, priority |-> 1],
  [id |-> "service-dependency",
   conditions |-> [alert_types |-> {"service_down", "database_connection_failed"},
                   time_window |-> 120, dependency_check |-> TRUE],
   actions |-> {"create_correlation", "identify_root_cause", "suppress_dependent_alerts"},
   enabled |-> TRUE, priority |-> 1] >>

\* Alert(...) as process_alert constructs it from the payload
NewAlert(d) ==
  [id |-> d.id, server_id |-> d.server_id, alert_type |-> d.alert_type,
   severity |-> d.severity, timestamp |-> d.timestamp, status |-> "open",
   correlation_id |-> NoCorrelation, suppressed_count |-> 0, escalation_level |-> 0,
   root_cause_hint |-> FALSE]

\* the engine's mutable state, threaded through the helpers of one call; trace
\* lists the rule actions the call has executed, in order, evaluated the rules
\* _rule_matches was called for, matched those it returned True for, and errors
\* the exceptions the call has logged
EngineState ==
  [alerts |-> active_alerts, groups |-> correlation_groups,
   windows |-> suppression_windows, history |-> alert_history, db |-> db_alerts,
   trace |-> <<>>, evaluated |-> <<>>, matched |-> <<>>, errors |-> <<>>]

HasId(dict, id) == \E i \in DOMAIN dict : dict[i].id = id
IndexOf(dict, id) == CHOOSE i \in DOMAIN dict : dict[i].id = id

\* self.active_alerts[alert.id] = alert: a present key keeps its place
DictPut(dict, a) ==
  IF HasId(dict, a.id) THEN [dict EXCEPT ![IndexOf(dict, a.id)] = a]
  ELSE Append(dict, a)

\* _save_alert_to_db: INSERT OR REPLACE INTO alerts
SaveAlertToDb(db, a) ==
  [i \in DOMAIN db \cup {a.id} |-> IF i = a.id THEN a ELSE db[i]]

\* _log_alert_action
LogAlertAction(history, id, action) == Append(history, <<id, action>>)

SuppressionKey(server_id, alert_type) == <<server_id, alert_type>>

(***************************************************************************)
(* AlertCorrelationEngine: the helpers of process_alert.                   *)
(***************************************************************************)
\* faulty variant of IsSuppressed: the comparison with the expiry is the wrong way round
M_IsSuppressed(windows, a, now) ==
  LET k == SuppressionKey(a.server_id, a.alert_type)
  IN  k \in DOMAIN windows /\ now > windows[k]

\* _is_suppressed: its answer
IsSuppressed(windows, a, now) ==
  LET k == SuppressionKey(a.server_id, a.alert_type)
  IN  k \in DOMAIN windows /\ now < windows[k]

\* _is_suppressed: an expired window is deleted at lookup
EvictExpired(windows, a, now) ==
  LET k == SuppressionKey(a.server_id, a.alert_type)
  IN  IF k \in DOMAIN windows /\ ~(now < windows[k])
      THEN [x \in DOMAIN windows \ {k} |-> windows[x]]
      ELSE windows

\* faulty variant of UpdateSuppressionCount: the break is missing, every matching alert
\* is counted up
M_UpdateSuppressionCount(st, a) ==
  LET T == {i \in DOMAIN st.alerts :
              /\ st.alerts[i].server_id = a.server_id
              /\ st.alerts[i].alert_type = a.alert_type
              /\ st.alerts[i].status # "resolved"}
      counted == AsSeq([i \in DOMAIN st.alerts |->
                          IF i \in T THEN [st.alerts[i] EXCEPT !.suppressed_count = @ + 1]
                          ELSE st.alerts[i]])
  IN  [st EXCEPT !.alerts = counted,
                 !.db = [x \in DOMAIN st.db |->
                           IF \E i \in T : counted[i].id = x
                           THEN counted[IndexOf(counted, x)] ELSE st.db[x]]]

\* _update_suppression_count: the first alert of the dict with the same server
\* and type whose status is not RESOLVED
UpdateSuppressionCount(st, a) ==
  LET T == {i \in DOMAIN st.alerts :
              /\ st.alerts[i].server_id = a.server_id
              /\ st.alerts[i].alert_type = a.alert_type
              /\ st.alerts[i].status # "resolved"}
  IN  IF T = {} THEN st
      ELSE LET i == Min(T)
               b == [st.alerts[i] EXCEPT !.suppressed_count = @ + 1]
           IN  [st EXCEPT !.alerts[i] = b, !.db = SaveAlertToDb(@, b)]

Has(c, k) == k \in DOMAIN c

\* faulty variant of RuleMatches: the frequency_threshold test is left out
M_RuleMatches(dict, a, rule) ==
  LET c == rule.conditions
      cutoff_time == a.timestamp - c.time_window
      open_related == {i \in DOMAIN dict :
                         /\ dict[i].timestamp >= cutoff_time
                         /\ dict[i].id # a.id
                         /\ dict[i].status = "open"}
      related_alerts == IF Has(c, "same_server") /\ c.same_server
                        THEN {i \in open_related : dict[i].server_id = a.server_id}
                        ELSE open_related
  IN  IF Has(c, "alert_types") /\ a.alert_type \notin c.alert_types THEN FALSE
      ELSE IF ~Has(c, "time_window") THEN TRUE
      ELSE IF Has(c, "minimum_count")
              /\ Cardinality(related_alerts) < c.minimum_count - 1 THEN FALSE
      ELSE TRUE

\* _rule_matches
RuleMatches(dict, a, rule) ==
  LET c == rule.conditions
      cutoff_time == a.timestamp - c.time_window
      open_related == {i \in DOMAIN dict :
                         /\ dict[i].timestamp >= cutoff_time
                         /\ dict[i].id # a.id
                         /\ dict[i].status = "open"}
      related_alerts == IF Has(c, "same_server") /\ c.same_server
                        THEN {i \in open_related : dict[i].server_id = a.server_id}
                        ELSE open_related
      same_type_alerts == {i \in related_alerts : dict[i].alert_type = a.alert_type}
  IN  IF Has(c, "alert_types") /\ a.alert_type \notin c.alert_types THEN FALSE
      ELSE IF ~Has(c, "time_window") THEN TRUE
      ELSE IF Has(c, "minimum_count")
              /\ Cardinality(related_alerts) < c.minimum_count - 1 THEN FALSE
      ELSE IF Has(c, "frequency_threshold")
              /\ Cardinality(same_type_alerts) < c.frequency_threshold - 1 THEN FALSE
      ELSE TRUE

DefaultGroupWindow == 300

\* faulty variant of CreateCorrelationGroup: only the alert being ingested is
\* stamped and listed, the related alerts are left out
M_CreateCorrelationGroup(st, id, rule, now) ==
  LET i == IndexOf(st.alerts, id)
      b == [st.alerts[i] EXCEPT !.correlation_id = <<rule.id, now>>]
  IN  [st EXCEPT
         !.alerts[i] = b,
         !.db = SaveAlertToDb(@, b),
         !.groups = [g \in DOMAIN st.groups \cup {<<rule.id, now>>} |->
                       IF g = <<rule.id, now>> THEN <<id>> ELSE st.groups[g]]]

\* _create_correlation_group
CreateCorrelationGroup(st, id, rule, now) ==
  LET a == st.alerts[IndexOf(st.alerts, id)]
      c == rule.conditions
      correlation_id == <<rule.id, now>>
      window == IF Has(c, "time_window") THEN c.time_window ELSE DefaultGroupWindow
      cutoff_time == a.timestamp - window
      types == IF Has(c, "alert_types") THEN c.alert_types ELSE {}
      related0 == {i \in DOMAIN st.alerts :
                     /\ st.alerts[i].timestamp >= cutoff_time
                     /\ st.alerts[i].status = "open"
                     /\ st.alerts[i].alert_type \in types}
      related == IF Has(c, "same_server") /\ c.same_server
                 THEN {i \in related0 : st.alerts[i].server_id = a.server_id}
                 ELSE related0
      stamped == AsSeq([i \in DOMAIN st.alerts |->
                          IF i \in related
                          THEN [st.alerts[i] EXCEPT !.correlation_id = correlation_id]
                          ELSE st.alerts[i]])
      members == [k \in DOMAIN SeqOfSet(related) |-> stamped[SeqOfSet(related)[k]].id]
  IN  [st EXCEPT
         !.alerts = stamped,
         !.db = [x \in DOMAIN st.db \cup {stamped[i].id : i \in related} |->
                   IF \E i \in related : stamped[i].id = x
                   THEN stamped[IndexOf(stamped, x)] ELSE st.db[x]],
         !.groups = [g \in DOMAIN st.groups \cup {correlation_id} |->
                       IF g = correlation_id THEN members ELSE st.groups[g]]]

\* _escalate_alert_severity
EscalateAlertSeverity(st, id) ==
  LET i == IndexOf(st.alerts, id)
      a == st.alerts[i]
      current_index == SevIndex(a.severity)
  IN  IF current_index < Len(severity_order)
      THEN LET b == [a EXCEPT !.severity = severity_order[current_index + 1],
                              !.escalation_level = @ + 1]
           IN  [st EXCEPT !.alerts[i] = b,
                          !.db = SaveAlertToDb(@, b),
                          !.history = LogAlertAction(@, id, "escalated")]
      ELSE st

\* _create_suppression_window
CreateSuppressionWindow(st, id, now) ==
  LET a == st.alerts[IndexOf(st.alerts, id)]
      k == SuppressionKey(a.server_id, a.alert_type)
  IN  [st EXCEPT !.windows = [x \in DOMAIN st.windows \cup {k} |->
                                IF x = k THEN now + SuppressionSeconds
                                ELSE st.windows[x]]]

\* _identify_root_cause
IdentifyRootCause(st, id) ==
  LET i == IndexOf(st.alerts, id)
      b == [st.alerts[i] EXCEPT !.root_cause_hint = TRUE]
  IN  [st EXCEPT !.alerts[i] = b, !.db = SaveAlertToDb(@, b)]

\* one enabled action of _execute_rule_actions: it runs and is added to the trace
RunAction(st, id, rule, now, name) ==
  IF name \notin rule.actions THEN st
  ELSE LET done ==
             CASE name = "create_correlation" -> CreateCorrelationGroup(st, id, rule, now)
               [] name = "escalate_severity" -> EscalateAlertSeverity(st, id)
               [] name = "suppress_duplicates" -> CreateSuppressionWindow(st, id, now)
               [] name = "identify_root_cause" -> IdentifyRootCause(st, id)
               [] OTHER -> st   \* _send_notification, _create_maintenance_ticket: log only
       IN  [done EXCEPT !.trace = Append(@, <<rule.id, name>>)]

\* the order in which _execute_rule_actions tests the actions
action_order == <<"create_correlation", "escalate_severity", "suppress_duplicates",
                  "notify_network_team", "create_maintenance_ticket",
                  "identify_root_cause">>

\* what raises during a call: nothing, or _rule_matches of a rule
\* (<<rule id, "match">>), or one action of a rule (<<rule id, action>>)
NoFault == <<>>

\* the state in which an exception has reached the handler of
\* _apply_correlation_rules, which logs it
LogRuleError(st, fault) == [st EXCEPT !.errors = Append(@, fault)]

RECURSIVE RunActionsFrom(_, _, _, _, _, _)
\* the if statements of _execute_rule_actions from the k-th on: an action that
\* raises ends the function, no statement of it catches
RunActionsFrom(st, id, rule, now, k, fault) ==
  IF k > Len(action_order) THEN st
  ELSE IF action_order[k] \in rule.actions /\ fault = <<rule.id, action_order[k]>>
  THEN LogRuleError(st, fault)
  ELSE RunActionsFrom(RunAction(st, id, rule, now, action_order[k]),
                      id, rule, now, k + 1, fault)

\* _execute_rule_actions
ExecuteRuleActions(st, id, rule, now, fault) == RunActionsFrom(st, id, rule, now, 1, fault)

RECURSIVE SortByPriority(_)
\* sorted(self.correlation_rules, key=lambda r: r.priority): stable
SortByPriority(rs) ==
  IF rs = <<>> THEN <<>>
  ELSE LET i == Min({j \in DOMAIN rs : \A k \in DOMAIN rs : rs[j].priority <= rs[k].priority})
       IN  <<rs[i]>> \o SortByPriority(RemoveAt(rs, i))

\* the body of the loop of _apply_correlation_rules for one enabled rule: the
\* try block, and the handler that logs what it raised
TryRule(st, id, now, rule, fault) ==
  LET a == st.alerts[IndexOf(st.alerts, id)]
      st1 == [st EXCEPT !.evaluated = Append(@, rule.id)]
  IN  IF fault = <<rule.id, "match">> THEN LogRuleError(st1, fault)
      ELSE IF RuleMatches(st1.alerts, a, rule)
      THEN ExecuteRuleActions([st1 EXCEPT !.matched = Append(@, rule.id)],
                              id, rule, now, fault)
      ELSE st1

\* faulty variant of ApplyRulesFrom: the handler is around the loop, so the
\* first rule that raises ends it
RECURSIVE M_ApplyRulesFrom(_, _, _, _, _, _)
M_ApplyRulesFrom(st, id, now, rules, k, fault) ==
  IF k > Len(rules) THEN st
  ELSE IF ~rules[k].enabled THEN M_ApplyRulesFrom(st, id, now, rules, k + 1, fault)
  ELSE LET next == TryRule(st, id, now, rules[k], fault)
       IN  IF Len(next.errors) > Len(st.errors) THEN next
           ELSE M_ApplyRulesFrom(next, id, now, rules, k + 1, fault)

RECURSIVE ApplyRulesFrom(_, _, _, _, _, _)
\* the loop of _apply_correlation_rules from the k-th rule of the sorted list on
ApplyRulesFrom(st, id, now, rules, k, fault) ==
  IF k > Len(rules) THEN st
  ELSE IF ~rules[k].enabled THEN ApplyRulesFrom(st, id, now, rules, k + 1, fault)
  ELSE ApplyRulesFrom(TryRule(st, id, now, rules[k], fault), id, now, rules, k + 1, fault)

\* _apply_correlation_rules
ApplyCorrelationRules(st, id, now, fault) ==
  ApplyRulesFrom(st, id, now, SortByPriority(correlation_rules), 1, fault)

(***************************************************************************)
(* AlertCorrelationEngine: the calls.  Every call runs under self.lock, so *)
(* each is one step.                                                       *)
(***************************************************************************)
SetEngine(st) ==
  /\ UNCHANGED correlation_rules
  /\ active_alerts' = st.alerts
  /\ correlation_groups' = st.groups
  /\ suppression_windows' = st.windows
  /\ alert_history' = st.history
  /\ db_alerts' = st.db

NoCall ==
  [op |-> "none", id |-> 0, server_id |-> NoValue, alert_type |-> NoValue,
   severity |-> NoValue, status |-> NoValue, correlation_id |-> NoCorrelation,
   ok |-> FALSE, applied |-> <<>>, store_failed |-> FALSE, raised |-> FALSE,
   evaluated |-> <<>>, matched |-> <<>>, errors |-> <<>>, missing |-> {}, http |-> 0]

\* ids are numbered in the order they are first stored; FreshId is the next
\* unused one (a uuid4, or an id the payload carries for the first time)
FreshId == Cardinality(DOMAIN db_alerts) + 1

\* timestamp: the payload carries none, so it is datetime.now()
Payloads ==
  [id : 1..FreshId, server_id : Servers, alert_type : AlertTypes,
   severity : InSeverities, timestamp : {clock}]

\* process_alert(alert_data) with the given thing raising inside
\* _apply_correlation_rules: the state it leaves and the alert it returns
ProcessAlertOutcomeWith(d, fault) ==
  LET a == NewAlert(d)
      st0 == EngineState
      call == [NoCall EXCEPT !.op = "process_alert", !.id = a.id,
                             !.server_id = a.server_id, !.alert_type = a.alert_type]
  IN  IF IsSuppressed(st0.windows, a, clock)
      THEN [st |-> UpdateSuppressionCount(st0, a),
            last |-> [call EXCEPT !.status = "suppressed", !.ok = TRUE]]
      ELSE LET st1 == [st0 EXCEPT !.windows = EvictExpired(@, a, clock),
                                  !.alerts = DictPut(@, a),
                                  !.db = SaveAlertToDb(@, a)]
               st2 == ApplyCorrelationRules(st1, a.id, clock, fault)
               st3 == [st2 EXCEPT !.history = LogAlertAction(@, a.id, "processed")]
               out == st3.alerts[IndexOf(st3.alerts, a.id)]
           IN  [st |-> st3,
                last |-> [call EXCEPT !.status = out.status,
                                      !.severity = a.severity,
                                      !.correlation_id = out.correlation_id,
                                      !.ok = TRUE, !.applied = st3.trace,
                                      !.evaluated = st3.evaluated,
                                      !.matched = st3.matched,
                                      !.errors = st3.errors]]

\* process_alert(alert_data): the state it leaves and the alert it returns
ProcessAlertOutcome(d) == ProcessAlertOutcomeWith(d, NoFault)

\* one call of process_alert(alert_data)
ProcessAlertCall(d) ==
  /\ component = "engine"
  /\ LET r == ProcessAlertOutcome(d)
     IN  SetEngine(r.st) /\ last' = r.last
  /\ ncalls' = [ncalls EXCEPT !.calls = @ + 1]
  /\ UNCHANGED <<monitor, dispatch, component, clock, escVars>>

\* process_alert(alert_data)
ProcessAlert(d) == ncalls.calls < MaxCalls /\ ProcessAlertCall(d)

\* acknowledge_alert(alert_id): the state it leaves and the value it returns
AcknowledgeAlert(st, id) ==
  IF HasId(st.alerts, id)
  THEN LET i == IndexOf(st.alerts, id)
           b == [st.alerts[i] EXCEPT !.status = "acknowledged"]
       IN  [st |-> [st EXCEPT !.alerts[i] = b,
                              !.db = SaveAlertToDb(@, b),
                              !.history = LogAlertAction(@, id, "acknowledged")],
            ok |-> TRUE]
  ELSE [st |-> st, ok |-> FALSE]

\* faulty variant of ResolveAlert: the history row is written outside the membership test
M_ResolveAlert(st, id) ==
  IF HasId(st.alerts, id)
  THEN LET i == IndexOf(st.alerts, id)
           b == [st.alerts[i] EXCEPT !.status = "resolved"]
       IN  [st |-> [st EXCEPT !.alerts = RemoveAt(@, i),
                              !.db = SaveAlertToDb(@, b),
                              !.history = LogAlertAction(@, id, "resolved")],
            ok |-> TRUE]
  ELSE [st |-> [st EXCEPT !.history = LogAlertAction(@, id, "resolved")], ok |-> FALSE]

\* faulty variant of ResolveAlert: the alert is not deleted from active_alerts
M_ResolveAlertKept(st, id) ==
  IF HasId(st.alerts, id)
  THEN LET i == IndexOf(st.alerts, id)
           b == [st.alerts[i] EXCEPT !.status = "resolved"]
       IN  [st |-> [st EXCEPT !.alerts[i] = b,
                              !.db = SaveAlertToDb(@, b),
                              !.history = LogAlertAction(@, id, "resolved")],
            ok |-> TRUE]
  ELSE [st |-> st, ok |-> FALSE]

\* resolve_alert(alert_id): the state it leaves and the value it returns
ResolveAlert(st, id) ==
  IF HasId(st.alerts, id)
  THEN LET i == IndexOf(st.alerts, id)
           b == [st.alerts[i] EXCEPT !.status = "resolved"]
       IN  [st |-> [st EXCEPT !.alerts = RemoveAt(@, i),
                              !.db = SaveAlertToDb(@, b),
                              !.history = LogAlertAction(@, id, "resolved")],
            ok |-> TRUE]
  ELSE [st |-> st, ok |-> FALSE]

EngineAcknowledge(id) ==
  /\ component = "engine"
  /\ ncalls.calls < MaxCalls
  /\ LET r == AcknowledgeAlert(EngineState, id)
     IN  /\ SetEngine(r.st)
         /\ last' = [NoCall EXCEPT !.op = "acknowledge_alert", !.id = id, !.ok = r.ok]
  /\ ncalls' = [ncalls EXCEPT !.calls = @ + 1]
  /\ UNCHANGED <<monitor, dispatch, component, clock, escVars>>

EngineResolve(id) ==
  /\ component = "engine"
  /\ ncalls.calls < MaxCalls
  /\ LET r == ResolveAlert(EngineState, id)
     IN  /\ SetEngine(r.st)
         /\ last' = [NoCall EXCEPT !.op = "resolve_alert", !.id = id, !.ok = r.ok]
  /\ ncalls' = [ncalls EXCEPT !.calls = @ + 1]
  /\ UNCHANGED <<monitor, dispatch, component, clock, escVars>>

\* time passes between calls
EngineAdvanceClock ==
  /\ component = "engine"
  /\ ncalls.ticks < MaxTicks
  /\ clock' = clock + TimeStep
  /\ ncalls' = [ncalls EXCEPT !.ticks = @ + 1]
  /\ UNCHANGED <<monitor, dispatch, component, last, engineVars, escVars>>

NoCalls == [calls |-> 0, ticks |-> 0]

EngineEmpty ==
  /\ correlation_rules = <<>>
  /\ active_alerts = <<>>
  /\ correlation_groups = <<>>
  /\ suppression_windows = <<>>
  /\ alert_history = <<>>
  /\ db_alerts = <<>>

EscEmpty ==
  /\ alert_objects = <<>>
  /\ alerts = <<>>
  /\ escalation_tasks = <<>>
  /\ escalation_history = <<>>
  /\ persisted = <<>>

NoDispatch == <<>>
NoMonitor == <<>>

\* AlertCorrelationEngine.__init__
InitEngine ==
  /\ component = "engine"
  /\ dispatch = NoDispatch
  /\ monitor = NoMonitor
  /\ clock = 0
  /\ ncalls = NoCalls
  /\ last = NoCall
  /\ EscEmpty
  /\ correlation_rules = default_rules
  /\ active_alerts = <<>>
  /\ correlation_groups = <<>>
  /\ suppression_windows = <<>>
  /\ alert_history = <<>>
  /\ db_alerts = <<>>

NextEngine ==
  \/ \E d \in Payloads : ProcessAlert(d)
  \/ \E id \in 1..FreshId : EngineAcknowledge(id)
  \/ \E id \in 1..FreshId : EngineResolve(id)
  \/ EngineAdvanceClock

SpecEngine == InitEngine /\ [][NextEngine]_vars

(***************************************************************************)
(* AlertCorrelationEngine fed with the alert types of the cpu-memory rule, *)
(* from two servers.                                                       *)
(***************************************************************************)
CorrServers == {"srv-001", "srv-002"}
CorrTypes == {"cpu_high", "memory_high"}

CorrPayloads ==
  [id : 1..FreshId, server_id : CorrServers, alert_type : CorrTypes,
   severity : {"warning"}, timestamp : {clock}]

NextCorrelation ==
  \/ \E d \in CorrPayloads : ProcessAlert(d)
  \/ \E id \in 1..FreshId : EngineAcknowledge(id)
  \/ \E id \in 1..FreshId : EngineResolve(id)
  \/ EngineAdvanceClock

SpecCorrelation == InitEngine /\ [][NextCorrelation]_vars

(***************************************************************************)
(* AlertCorrelationEngine fed with disk_space_low alerts from two servers, *)
(* for the frequency rule.                                                 *)
(***************************************************************************)
FrequencyPayloads ==
  [id : 1..FreshId, server_id : CorrServers, alert_type : {"disk_space_low"},
   severity : {"warning"}, timestamp : {clock}]

FrequencyAdvanceClock ==
  /\ component = "engine"
  /\ ncalls.ticks < MaxTicks
  /\ clock' = clock + FrequencyStep
  /\ ncalls' = [ncalls EXCEPT !.ticks = @ + 1]
  /\ UNCHANGED <<monitor, dispatch, component, last, engineVars, escVars>>

NextFrequency ==
  \/ \E d \in FrequencyPayloads :
       ncalls.calls < MaxFrequencyCalls /\ ProcessAlertCall(d)
  \/ \E id \in 1..FreshId : EngineAcknowledge(id)
  \/ \E id \in 1..FreshId : EngineResolve(id)
  \/ FrequencyAdvanceClock

SpecFrequency == InitEngine /\ [][NextFrequency]_vars

(***************************************************************************)
(* AlertEscalationSystem: data.                                            *)
(***************************************************************************)
\* _load_default_rules: contacts and rules, in the order of self.escalation_rules
critical_contacts == <<
  [id |-> "admin_email", method |-> "email", priority |-> 1, active |-> TRUE],
  [id |-> "security_lead_sms", method |-> "sms", priority |-> 2, active |-> TRUE],
  [id |-> "oncall_slack", method |-> "slack", priority |-> 3, active |-> TRUE] >>

high_contacts == <<
  [id |-> "security_team_email", method |-> "email", priority |-> 1, active |-> TRUE],
  [id |-> "manager_sms", method |-> "sms", priority |-> 2, active |-> TRUE] >>

escalation_rules == <<
  [id |-> "critical_escalation", severity_levels |-> {"critical"},
   escalation_delay_minutes |-> 5, max_escalation_levels |-> 3,
   contacts |-> critical_contacts, active |-> TRUE],
  [id |-> "high_escalation", severity_levels |-> {"high"},
   escalation_delay_minutes |-> 15, max_escalation_levels |-> 2,
   contacts |-> high_contacts, active |-> TRUE],
  [id |-> "medium_escalation", severity_levels |-> {"medium"},
   escalation_delay_minutes |-> 60, max_escalation_levels |-> 1,
   contacts |-> <<critical_contacts[1]>>, active |-> TRUE] >>

EscSeverities == {"low", "medium", "high", "critical"}
Titles == {"Database Connection Failure"}

\* _find_escalation_rule: the first active rule listing the severity (0: None)
FindEscalationRule(severity) ==
  LET M == {k \in DOMAIN escalation_rules :
              /\ escalation_rules[k].active
              /\ severity \in escalation_rules[k].severity_levels}
  IN  IF M = {} THEN 0 ELSE Min(M)

MinDelaySeconds == 300

\* faulty variant of DelaySeconds: the delay is halved at level 0 as well
M_DelaySeconds(rule, severity, level) ==
  LET delay_seconds == rule.escalation_delay_minutes * 60
  IN  IF severity = "critical"
      THEN (IF delay_seconds \div 2 > MinDelaySeconds
            THEN delay_seconds \div 2 ELSE MinDelaySeconds)
      ELSE delay_seconds

\* the delay _escalation_monitor computes before its sleep
DelaySeconds(rule, severity, level) ==
  LET delay_seconds == rule.escalation_delay_minutes * 60
  IN  IF severity = "critical" /\ level > 0
      THEN (IF delay_seconds \div 2 > MinDelaySeconds
            THEN delay_seconds \div 2 ELSE MinDelaySeconds)
      ELSE delay_seconds

\* faulty variant of GetContactsForLevel: the cap min(level, 3) is missing
M_GetContactsForLevel(contacts, level) ==
  SelectSeq(contacts, LAMBDA c : c.active /\ c.priority <= level)

\* _get_contacts_for_level
GetContactsForLevel(contacts, level) ==
  LET max_priority == IF level < 3 THEN level ELSE 3
  IN  SelectSeq(contacts, LAMBDA c : c.active /\ c.priority <= max_priority)

\* what a sender (_send_email_notification, ...) can do when called
SenderOutcomes == {"true", "false", "raise"}

\* faulty variant of SendNotificationVia: the outer try/except is missing, what
\* a sender raises goes through
M_SendNotificationVia(contact, outcome) ==
  IF contact.method \in {"email", "sms", "slack", "webhook"}
  THEN [raised |-> outcome = "raise", value |-> outcome = "true"]
  ELSE [raised |-> FALSE, value |-> FALSE]

\* _send_notification when the sender of the contact's method does outcome:
\* the value it returns and whether it raises.  A method without a sender is
\* reported unsupported; anything a sender raises is caught
SendNotificationVia(contact, outcome) ==
  IF contact.method \in {"email", "sms", "slack", "webhook"}
  THEN [raised |-> FALSE, value |-> outcome = "true"]
  ELSE [raised |-> FALSE, value |-> FALSE]

\* _send_notification with the senders as written: they log and return True
SendNotification(contact) == SendNotificationVia(contact, "true").value

\* _persist_alert: INSERT OR REPLACE INTO alerts
PersistAlert(db, a) ==
  [i \in DOMAIN db \cup {a.id} |->
     IF i = a.id THEN [status |-> a.status, escalation_level |-> a.escalation_level,
                       severity |-> a.severity]
     ELSE db[i]]

RECURSIVE LogEscalations(_, _, _, _)
\* the loop of _escalate_alert: _send_notification then _log_escalation per contact
LogEscalations(history, a, contacts, k) ==
  IF k > Len(contacts) THEN history
  ELSE LogEscalations(
         Append(history, [alert_id |-> a.id, escalation_level |-> a.escalation_level,
                          method |-> contacts[k].method, contact_id |-> contacts[k].id,
                          success |-> SendNotification(contacts[k])]),
         a, contacts, k + 1)

\* the while test of _escalation_monitor, then the delay and the sleep
MonitorLoop(o) ==
  LET rule == escalation_rules[o.rule]
  IN  IF o.status = "active" /\ o.escalation_level < rule.max_escalation_levels
      THEN [o EXCEPT !.task = "sleeping",
                     !.delay = DelaySeconds(rule, o.severity, o.escalation_level)]
      ELSE [o EXCEPT !.task = "done"]

\* asyncio.sleep(delay_seconds) started at now ends at now + delay_seconds
Sleep(o, now) == IF o.task = "sleeping" THEN [o EXCEPT !.wake = now + o.delay] ELSE o

\* faulty variant of EscalateAlert: the level is counted up twice
M_EscalateAlert(o) ==
  [o EXCEPT !.escalation_level = @ + 2, !.status = "escalated"]

\* _escalate_alert: the alert's fields
EscalateAlert(o) ==
  [o EXCEPT !.escalation_level = @ + 1, !.status = "escalated"]

\* task.cancel(): a finished task ignores it; any other gets CancelledError at
\* its next step
Cancel(objs, k) ==
  IF objs[k].task \in {"created", "sleeping"}
  THEN [objs EXCEPT ![k].task = "cancelling"]
  ELSE objs

DictDel(d, k) == [x \in DOMAIN d \ {k} |-> d[x]]
DictSet(d, k, v) == [x \in DOMAIN d \cup {k} |-> IF x = k THEN v ELSE d[x]]

(***************************************************************************)
(* AlertEscalationSystem: the calls.  The class runs on one asyncio event  *)
(* loop: a coroutine runs until it awaits something that suspends, and     *)
(* only asyncio.sleep in _escalation_monitor does.                         *)
(***************************************************************************)
\* alert_id of create_alert: the second of the clock and id(title)
AlertId(title) == <<clock, title>>
UnknownId == <<-1, "unknown">>

\* create_alert(title, message, severity, source)
CreateAlert(title, severity) ==
  /\ component = "escalation"
  /\ ncalls.calls < MaxCalls
  /\ Len(alert_objects) < MaxCreates
  /\ LET id == AlertId(title)
         k == Len(alert_objects) + 1
         r == FindEscalationRule(severity)
         monitored == severity # "low" /\ r # 0
         o == [id |-> id, severity |-> severity, status |-> "active",
               escalation_level |-> 0, acknowledged_by |-> NoValue,
               task |-> IF monitored THEN "created" ELSE "none",
               rule |-> r, delay |-> 0, wake |-> 0]
     IN  /\ alert_objects' = Append(alert_objects, o)
         /\ alerts' = DictSet(alerts, id, k)
         /\ persisted' = PersistAlert(persisted, o)
         /\ escalation_tasks' = IF monitored THEN DictSet(escalation_tasks, id, k)
                                ELSE escalation_tasks
         /\ last' = [NoCall EXCEPT !.op = "create_alert", !.id = id, !.ok = TRUE,
                                   !.status = "active"]
  /\ ncalls' = [ncalls EXCEPT !.calls = @ + 1]
  /\ UNCHANGED <<monitor, dispatch, component, clock, escalation_history, engineVars>>

\* the value acknowledge_alert(alert_id, ...) returns in the current state
EscAcknowledgeReturns(id) ==
  IF id \notin DOMAIN alerts THEN FALSE
  ELSE alert_objects[alerts[id]].status = "active"

\* the value resolve_alert(alert_id, ...) returns in the current state
EscResolveReturns(id) == id \in DOMAIN alerts

\* acknowledge_alert(alert_id, acknowledged_by)
EscAcknowledge(id) ==
  /\ component = "escalation"
  /\ ncalls.calls < MaxCalls
  /\ IF id \notin DOMAIN alerts
     THEN /\ last' = [NoCall EXCEPT !.op = "acknowledge_alert", !.id = id, !.ok = FALSE]
          /\ UNCHANGED <<alert_objects, escalation_tasks, persisted>>
     ELSE IF alert_objects[alerts[id]].status # "active"
     THEN /\ last' = [NoCall EXCEPT !.op = "acknowledge_alert", !.id = id, !.ok = FALSE]
          /\ UNCHANGED <<alert_objects, escalation_tasks, persisted>>
     ELSE LET k == alerts[id]
              objs1 == [alert_objects EXCEPT ![k].status = "acknowledged",
                                             ![k].acknowledged_by = "operator"]
              objs2 == IF id \in DOMAIN escalation_tasks
                       THEN Cancel(objs1, escalation_tasks[id]) ELSE objs1
          IN  /\ alert_objects' = objs2
              /\ escalation_tasks' = DictDel(escalation_tasks, id)
              /\ persisted' = PersistAlert(persisted, objs2[k])
              /\ last' = [NoCall EXCEPT !.op = "acknowledge_alert", !.id = id, !.ok = TRUE]
  /\ ncalls' = [ncalls EXCEPT !.calls = @ + 1]
  /\ UNCHANGED <<monitor, dispatch, component, clock, alerts, escalation_history, engineVars>>

\* resolve_alert(alert_id, resolved_by)
EscResolve(id) ==
  /\ component = "escalation"
  /\ ncalls.calls < MaxCalls
  /\ IF id \notin DOMAIN alerts
     THEN /\ last' = [NoCall EXCEPT !.op = "resolve_alert", !.id = id, !.ok = FALSE]
          /\ UNCHANGED <<alert_objects, escalation_tasks, persisted>>
     ELSE LET k == alerts[id]
              objs1 == [alert_objects EXCEPT ![k].status = "resolved"]
              objs2 == IF id \in DOMAIN escalation_tasks
                       THEN Cancel(objs1, escalation_tasks[id]) ELSE objs1
          IN  /\ alert_objects' = objs2
              /\ escalation_tasks' = DictDel(escalation_tasks, id)
              /\ persisted' = PersistAlert(persisted, objs2[k])
              /\ last' = [NoCall EXCEPT !.op = "resolve_alert", !.id = id, !.ok = TRUE]
  /\ ncalls' = [ncalls EXCEPT !.calls = @ + 1]
  /\ UNCHANGED <<monitor, dispatch, component, clock, alerts, escalation_history, engineVars>>

\* the event loop runs a new task's first step: up to its first sleep
TaskStart(k) ==
  /\ component = "escalation"
  /\ alert_objects[k].task = "created"
  /\ alert_objects' = [alert_objects EXCEPT ![k] = Sleep(MonitorLoop(@), clock)]
  /\ UNCHANGED <<monitor, dispatch, component, clock, ncalls, last, alerts, escalation_tasks,
                 escalation_history, persisted, engineVars>>

\* one escalation tick: the sleep of the task ends (the clock has reached its
\* wake time), the task re-checks the status, escalates, notifies, and goes
\* round the loop to its next sleep
EscalationTick(k) ==
  /\ component = "escalation"
  /\ alert_objects[k].task = "sleeping"
  /\ LET o == alert_objects[k]
         now == IF clock < o.wake THEN o.wake ELSE clock
     IN  /\ clock' = now
         /\ IF o.status # "active"
            THEN /\ alert_objects' = [alert_objects EXCEPT ![k].task = "done"]
                 /\ UNCHANGED <<escalation_history, persisted>>
            ELSE LET e == EscalateAlert(o)
                     contacts_to_notify ==
                       GetContactsForLevel(escalation_rules[o.rule].contacts,
                                           e.escalation_level)
                 IN  /\ escalation_history' =
                          LogEscalations(escalation_history, e, contacts_to_notify, 1)
                     /\ persisted' = PersistAlert(persisted, e)
                     /\ alert_objects' = [alert_objects EXCEPT ![k] = Sleep(MonitorLoop(e), now)]
  /\ UNCHANGED <<monitor, dispatch, component, ncalls, last, alerts, escalation_tasks, engineVars>>

\* a cancelled task takes its CancelledError and ends
TaskCancelled(k) ==
  /\ component = "escalation"
  /\ alert_objects[k].task = "cancelling"
  /\ alert_objects' = [alert_objects EXCEPT ![k].task = "done"]
  /\ UNCHANGED <<monitor, dispatch, component, clock, ncalls, last, alerts, escalation_tasks,
                 escalation_history, persisted, engineVars>>

\* a second passes.  The clock only feeds alert ids, so a second in which no
\* alert was created need not be told from the next one
EscAdvanceClock ==
  /\ component = "escalation"
  /\ \E t \in Titles : AlertId(t) \in DOMAIN alerts
  /\ clock' = clock + 1
  /\ UNCHANGED <<monitor, dispatch, component, ncalls, last, escVars, engineVars>>

\* AlertEscalationSystem.__init__
InitEsc ==
  /\ component = "escalation"
  /\ dispatch = NoDispatch
  /\ monitor = NoMonitor
  /\ clock = 0
  /\ ncalls = NoCalls
  /\ last = NoCall
  /\ EngineEmpty
  /\ EscEmpty

NextEsc ==
  \/ \E t \in Titles, sev \in EscSeverities : CreateAlert(t, sev)
  \/ \E id \in DOMAIN alerts \cup {UnknownId} : EscAcknowledge(id)
  \/ \E id \in DOMAIN alerts \cup {UnknownId} : EscResolve(id)
  \/ \E k \in DOMAIN alert_objects : TaskStart(k)
  \/ \E k \in DOMAIN alert_objects : EscalationTick(k)
  \/ \E k \in DOMAIN alert_objects : TaskCancelled(k)
  \/ EscAdvanceClock

SpecEsc == InitEsc /\ [][NextEsc]_vars

(***************************************************************************)
(* AlertEscalationSystem._escalate_alert on its own: called on an alert    *)
(* under a rule with any list of contacts, with senders that return True,  *)
(* return False or raise.                                                  *)
(***************************************************************************)
Methods == {"email", "phone_call"}
Priorities == 1..4
ContactShapes == [method : Methods, priority : Priorities, active : BOOLEAN]

\* the contact lists of a rule: up to MaxContacts contacts, ids by position
ContactLists ==
  UNION {{[i \in 1..n |-> [id |-> i, method |-> f[i].method,
                           priority |-> f[i].priority, active |-> f[i].active]] :
            f \in [1..n -> ContactShapes]} : n \in 0..MaxContacts}

\* the row _log_escalation inserts
EscalationRow(a, contact, success) ==
  [alert_id |-> a.id, escalation_level |-> a.escalation_level,
   method |-> contact.method, contact_id |-> contact.id, success |-> success]

RECURSIVE M_NotifyLoop(_, _, _, _)
\* faulty variant of NotifyLoop: only successful attempts are logged
M_NotifyLoop(d, contacts, outcomes, k) ==
  IF k > Len(contacts) THEN [d EXCEPT !.completed = TRUE]
  ELSE LET r == SendNotificationVia(contacts[k], outcomes[k])
       IN  IF r.raised THEN [d EXCEPT !.raised = TRUE]
           ELSE M_NotifyLoop(
                  [d EXCEPT !.returned = Append(@, r.value),
                            !.history = IF r.value
                                        THEN Append(@, EscalationRow(d.alert, contacts[k], r.value))
                                        ELSE @],
                  contacts, outcomes, k + 1)

RECURSIVE NotifyLoop(_, _, _, _)
\* the loop of _escalate_alert over contacts_to_notify, then _persist_alert.
\* An exception leaves the loop and the call
NotifyLoop(d, contacts, outcomes, k) ==
  IF k > Len(contacts) THEN [d EXCEPT !.completed = TRUE]
  ELSE LET r == SendNotificationVia(contacts[k], outcomes[k])
       IN  IF r.raised THEN [d EXCEPT !.raised = TRUE]
           ELSE NotifyLoop(
                  [d EXCEPT !.returned = Append(@, r.value),
                            !.history = Append(@, EscalationRow(d.alert, contacts[k], r.value))],
                  contacts, outcomes, k + 1)

\* _escalate_alert(alert, rule) with the senders doing outcomes
EscalateAlertCall ==
  /\ component = "dispatch"
  /\ ~dispatch.raised
  /\ dispatch.ticks < MaxDispatchTicks
  /\ LET e == EscalateAlert(dispatch.alert)
         contacts_to_notify == GetContactsForLevel(dispatch.contacts, e.escalation_level)
         d0 == [dispatch EXCEPT !.alert = e, !.selected = contacts_to_notify,
                                !.returned = <<>>, !.completed = FALSE,
                                !.ticks = @ + 1]
     IN  \E outcomes \in [1..Len(contacts_to_notify) -> SenderOutcomes] :
           dispatch' = NotifyLoop(d0, contacts_to_notify, outcomes, 1)
  /\ UNCHANGED <<monitor, component, clock, ncalls, last, engineVars, escVars>>

InitDispatch ==
  /\ component = "dispatch"
  /\ monitor = NoMonitor
  /\ clock = 0
  /\ ncalls = NoCalls
  /\ last = NoCall
  /\ EngineEmpty
  /\ EscEmpty
  /\ \E cs \in ContactLists, level \in 0..(MaxLevel - MaxDispatchTicks) :
       dispatch = [alert |-> [id |-> "alert_1", escalation_level |-> level,
                              status |-> "active"],
                   contacts |-> cs, selected |-> <<>>, returned |-> <<>>,
                   history |-> <<>>, completed |-> FALSE, raised |-> FALSE,
                   ticks |-> 0]

NextDispatch == EscalateAlertCall

SpecDispatch == InitDispatch /\ [][NextDispatch]_vars

(***************************************************************************)
(* The delay of _escalation_monitor on its own: the statements of one      *)
(* round of the loop from delay_seconds = ... to asyncio.sleep, for an     *)
(* alert of any severity under a rule with any of a range of               *)
(* escalation_delay_minutes, at each level below the rule's maximum.       *)
(***************************************************************************)
DelayMinutes == {1, 4, 5, 9, 10, 11, 15, 60}
MaxLevels == 1..3

\* one round: the delay is computed and slept, the level goes up
MonitorWait ==
  /\ component = "monitor"
  /\ monitor.alert.escalation_level < monitor.rule.max_escalation_levels
  /\ LET delay_seconds == DelaySeconds(monitor.rule, monitor.alert.severity,
                                       monitor.alert.escalation_level)
     IN  /\ monitor' = [monitor EXCEPT !.delay_seconds = delay_seconds,
                                       !.level_at_wait = monitor.alert.escalation_level,
                                       !.waits = @ + 1,
                                       !.alert.escalation_level = @ + 1]
         /\ clock' = clock + delay_seconds
  /\ UNCHANGED <<dispatch, component, ncalls, last, engineVars, escVars>>

InitDelay ==
  /\ component = "monitor"
  /\ dispatch = NoDispatch
  /\ clock = 0
  /\ ncalls = NoCalls
  /\ last = NoCall
  /\ EngineEmpty
  /\ EscEmpty
  /\ \E sev \in EscSeverities, m \in DelayMinutes, x \in MaxLevels :
       monitor = [alert |-> [severity |-> sev, escalation_level |-> 0],
                  rule |-> [escalation_delay_minutes |-> m, max_escalation_levels |-> x],
                  delay_seconds |-> 0, level_at_wait |-> 0, waits |-> 0]

NextDelay == MonitorWait

SpecDelay == InitDelay /\ [][NextDelay]_vars

(***************************************************************************)
(* Either class.                                                           *)
(***************************************************************************)
Init == InitEngine \/ InitEsc
Next == NextEngine \/ NextEsc
Spec == Init /\ [][Next]_vars

(***************************************************************************)
(* AlertCorrelationEngine fed network alerts whose payload may carry a     *)
(* timestamp of its own, earlier than the time of the call (an alert       *)
(* delivered late).                                                        *)
(***************************************************************************)
WindowPayloads ==
  [id : 1..FreshId, server_id : Servers, alert_type : {"network_down"},
   severity : {"warning"}, timestamp : {clock, clock - PastOffset}]

NextWindow ==
  \/ \E d \in WindowPayloads : ProcessAlert(d)
  \/ \E id \in 1..FreshId : EngineAcknowledge(id)
  \/ EngineAdvanceClock

SpecWindow == InitEngine /\ [][NextWindow]_vars

(***************************************************************************)
(* AlertCorrelationEngine with rules other than the default ones and with  *)
(* exceptions inside _apply_correlation_rules.  correlation_rules is a     *)
(* public list of CorrelationRule(id, name, description, conditions,       *)
(* actions, enabled, priority); here it holds three rules in a fixed       *)
(* insertion order, each with any priority and either value of enabled.    *)
(* Two of them match a cpu_high alert, the third does not.                 *)
(***************************************************************************)
cpu_followup_rule ==
  [id |-> "cpu-followup",
   conditions |-> [alert_types |-> {"cpu_high"}],
   actions |-> {"escalate_severity", "create_maintenance_ticket", "identify_root_cause"},
   enabled |-> TRUE, priority |-> 1]

RuleTemplates == <<default_rules[1], cpu_followup_rule, default_rules[3]>>

RulePriorities == {1, 2}

RuleLists ==
  {[i \in DOMAIN RuleTemplates |->
      [RuleTemplates[i] EXCEPT !.priority = p[i], !.enabled = e[i]]] :
     p \in [DOMAIN RuleTemplates -> RulePriorities],
     e \in [DOMAIN RuleTemplates -> BOOLEAN]}

\* what may raise in a call: _rule_matches of a rule, or one of its actions
Faults ==
  {NoFault} \cup
  UNION {{<<correlation_rules[i].id, at>> :
            at \in {"match"} \cup (correlation_rules[i].actions \cap Range(action_order))} :
         i \in DOMAIN correlation_rules}

RulePayloads ==
  [id : 1..FreshId, server_id : Servers, alert_type : {"cpu_high"},
   severity : {"warning"}, timestamp : {clock}]

\* one call of process_alert(alert_data) during which fault raises
ProcessAlertWithFault(d, fault) ==
  /\ component = "engine"
  /\ ncalls.calls < MaxRuleCalls
  /\ LET r == ProcessAlertOutcomeWith(d, fault)
     IN  SetEngine(r.st) /\ last' = r.last
  /\ ncalls' = [ncalls EXCEPT !.calls = @ + 1]
  /\ UNCHANGED <<monitor, dispatch, component, clock, escVars>>

InitRules ==
  /\ component = "engine"
  /\ dispatch = NoDispatch
  /\ monitor = NoMonitor
  /\ clock = 0
  /\ ncalls = NoCalls
  /\ last = NoCall
  /\ EscEmpty
  /\ correlation_rules \in RuleLists
  /\ active_alerts = <<>>
  /\ correlation_groups = <<>>
  /\ suppression_windows = <<>>
  /\ alert_history = <<>>
  /\ db_alerts = <<>>

NextRules == \E d \in RulePayloads, fault \in Faults : ProcessAlertWithFault(d, fault)

SpecRules == InitRules /\ [][NextRules]_vars

(***************************************************************************)
(* api_server.py: POST /api/alerts in front of the engine.  A request body *)
(* is a payload of process_alert from which some of the fields may be      *)
(* missing and whose severity may be a string AlertSeverity does not have. *)
(***************************************************************************)
required_fields == {"source", "server_id", "server_name", "alert_type", "severity", "message"}

\* the values of AlertSeverity
SeverityValues == Range(severity_order)

\* the fields a body lacks: none, one of the required ones, or all (the body {})
MissingSets == {{}} \cup {{f} : f \in required_fields} \cup {required_fields}

Bodies ==
  [id : 1..FreshId, server_id : Servers, alert_type : {"cpu_high"},
   severity : {"warning", "urgent"}, timestamp : {clock}, missing : MissingSets]

\* submit_alert: the status of the response and the state the request leaves
SubmitAlert(body) ==
  /\ component = "engine"
  /\ ncalls.calls < MaxCalls
  /\ LET call == [NoCall EXCEPT !.op = "submit_alert", !.id = body.id,
                                !.server_id = body.server_id,
                                !.alert_type = body.alert_type,
                                !.severity = body.severity, !.missing = body.missing]
         d == [id |-> body.id, server_id |-> body.server_id,
               alert_type |-> body.alert_type, severity |-> body.severity,
               timestamp |-> body.timestamp]
     IN  IF body.missing = required_fields          \* if not alert_data
         THEN last' = [call EXCEPT !.http = 400] /\ UNCHANGED engineVars
         ELSE IF body.missing \cap required_fields # {}
         THEN last' = [call EXCEPT !.http = 400] /\ UNCHANGED engineVars
         ELSE IF body.severity \notin SeverityValues
         \* AlertSeverity(...) raises ValueError in process_alert, which logs it
         \* and raises it again; the handler of submit_alert answers 500
         THEN last' = [call EXCEPT !.http = 500, !.raised = TRUE] /\ UNCHANGED engineVars
         ELSE LET r == ProcessAlertOutcome(d)
              IN  /\ SetEngine(r.st)
                  /\ last' = [r.last EXCEPT !.op = "submit_alert", !.http = 200,
                                             !.severity = body.severity]
  /\ ncalls' = [ncalls EXCEPT !.calls = @ + 1]
  /\ UNCHANGED <<monitor, dispatch, component, clock, escVars>>

NextApi ==
  \/ \E body \in Bodies : SubmitAlert(body)
  \/ EngineAdvanceClock

SpecApi == InitEngine /\ [][NextApi]_vars

(***************************************************************************)
(* The calls with a database that refuses the write (sqlite3 raises in     *)
(* execute or commit).  The engine's _save_alert_to_db and                 *)
(* _log_alert_action catch the exception and log it; the escalation        *)
(* system's _persist_alert has no handler, so the exception leaves the     *)
(* coroutine that awaited it.                                              *)
(***************************************************************************)
\* the engine's state after a call whose database writes were all dropped
SetEngineWithoutDb(st) ==
  /\ active_alerts' = st.alerts
  /\ correlation_groups' = st.groups
  /\ suppression_windows' = st.windows
  /\ UNCHANGED <<correlation_rules, alert_history, db_alerts>>

\* process_alert(alert_data) of an alert that is not suppressed
ProcessAlertStoreFails(d) ==
  /\ component = "engine"
  /\ ncalls.calls < MaxCalls
  /\ ~IsSuppressed(suppression_windows, NewAlert(d), clock)
  /\ LET r == ProcessAlertOutcome(d)
     IN  /\ SetEngineWithoutDb(r.st)
         /\ last' = [r.last EXCEPT !.store_failed = TRUE]
  /\ ncalls' = [ncalls EXCEPT !.calls = @ + 1]
  /\ UNCHANGED <<monitor, dispatch, component, clock, escVars>>

\* acknowledge_alert(alert_id) of an alert in active_alerts
EngineAcknowledgeStoreFails(id) ==
  /\ component = "engine"
  /\ ncalls.calls < MaxCalls
  /\ HasId(active_alerts, id)
  /\ LET r == AcknowledgeAlert(EngineState, id)
     IN  /\ SetEngineWithoutDb(r.st)
         /\ last' = [NoCall EXCEPT !.op = "acknowledge_alert", !.id = id, !.ok = r.ok,
                                   !.store_failed = TRUE]
  /\ ncalls' = [ncalls EXCEPT !.calls = @ + 1]
  /\ UNCHANGED <<monitor, dispatch, component, clock, escVars>>

\* resolve_alert(alert_id) of an alert in active_alerts
EngineResolveStoreFails(id) ==
  /\ component = "engine"
  /\ ncalls.calls < MaxCalls
  /\ HasId(active_alerts, id)
  /\ LET r == ResolveAlert(EngineState, id)
     IN  /\ SetEngineWithoutDb(r.st)
         /\ last' = [NoCall EXCEPT !.op = "resolve_alert", !.id = id, !.ok = r.ok,
                                   !.store_failed = TRUE]
  /\ ncalls' = [ncalls EXCEPT !.calls = @ + 1]
  /\ UNCHANGED <<monitor, dispatch, component, clock, escVars>>

\* create_alert: self.alerts[alert_id] = alert, then _persist_alert raises before
\* _start_escalation_monitoring is reached
CreateAlertStoreFails(title, severity) ==
  /\ component = "escalation"
  /\ ncalls.calls < MaxCalls
  /\ Len(alert_objects) < MaxCreates
  /\ LET id == AlertId(title)
         k == Len(alert_objects) + 1
         o == [id |-> id, severity |-> severity, status |-> "active",
               escalation_level |-> 0, acknowledged_by |-> NoValue,
               task |-> "none", rule |-> FindEscalationRule(severity),
               delay |-> 0, wake |-> 0]
     IN  /\ alert_objects' = Append(alert_objects, o)
         /\ alerts' = DictSet(alerts, id, k)
         /\ last' = [NoCall EXCEPT !.op = "create_alert", !.id = id,
                                   !.store_failed = TRUE, !.raised = TRUE]
  /\ ncalls' = [ncalls EXCEPT !.calls = @ + 1]
  /\ UNCHANGED <<monitor, dispatch, component, clock, escalation_tasks, escalation_history,
                 persisted, engineVars>>

\* acknowledge_alert of an ACTIVE alert: the fields are set and the task is
\* cancelled and forgotten, then _persist_alert raises
EscAcknowledgeStoreFails(id) ==
  /\ component = "escalation"
  /\ ncalls.calls < MaxCalls
  /\ EscAcknowledgeReturns(id)
  /\ LET k == alerts[id]
         objs1 == [alert_objects EXCEPT ![k].status = "acknowledged",
                                        ![k].acknowledged_by = "operator"]
     IN  alert_objects' = IF id \in DOMAIN escalation_tasks
                          THEN Cancel(objs1, escalation_tasks[id]) ELSE objs1
  /\ escalation_tasks' = DictDel(escalation_tasks, id)
  /\ last' = [NoCall EXCEPT !.op = "acknowledge_alert", !.id = id,
                            !.store_failed = TRUE, !.raised = TRUE]
  /\ ncalls' = [ncalls EXCEPT !.calls = @ + 1]
  /\ UNCHANGED <<monitor, dispatch, component, clock, alerts, escalation_history, persisted,
                 engineVars>>

\* resolve_alert of a known alert: the same, with status RESOLVED
EscResolveStoreFails(id) ==
  /\ component = "escalation"
  /\ ncalls.calls < MaxCalls
  /\ EscResolveReturns(id)
  /\ LET k == alerts[id]
         objs1 == [alert_objects EXCEPT ![k].status = "resolved"]
     IN  alert_objects' = IF id \in DOMAIN escalation_tasks
                          THEN Cancel(objs1, escalation_tasks[id]) ELSE objs1
  /\ escalation_tasks' = DictDel(escalation_tasks, id)
  /\ last' = [NoCall EXCEPT !.op = "resolve_alert", !.id = id,
                            !.store_failed = TRUE, !.raised = TRUE]
  /\ ncalls' = [ncalls EXCEPT !.calls = @ + 1]
  /\ UNCHANGED <<monitor, dispatch, component, clock, alerts, escalation_history, persisted,
                 engineVars>>

NextStoreFails ==
  \/ \E d \in Payloads : ProcessAlertStoreFails(d)
  \/ \E id \in 1..FreshId : EngineAcknowledgeStoreFails(id)
  \/ \E id \in 1..FreshId : EngineResolveStoreFails(id)
  \/ \E t \in Titles, sev \in EscSeverities : CreateAlertStoreFails(t, sev)
  \/ \E id \in DOMAIN alerts : EscAcknowledgeStoreFails(id)
  \/ \E id \in DOMAIN alerts : EscResolveStoreFails(id)

NextStore == Next \/ NextStoreFails
SpecStore == Init /\ [][NextStore]_vars

(***************************************************************************)
(* Vocabulary of the properties.                                           *)
(***************************************************************************)
IsEngine == component = "engine"
IsEsc == component = "escalation"

\* this step is a call (process_alert, create_alert, acknowledge_alert, resolve_alert)
CallStep == ncalls'.calls = ncalls.calls + 1
IngestStep == IsEngine /\ CallStep /\ last'.op = "process_alert"
SuppressStep == IngestStep /\ last'.status = "suppressed"

\* the (server_id, alert_type) window is present and not expired now
WindowActive(server_id, alert_type) ==
  /\ <<server_id, alert_type>> \in DOMAIN suppression_windows
  /\ clock < suppression_windows[<<server_id, alert_type>>]

SameKey(dict, server_id, alert_type) ==
  {i \in DOMAIN dict : dict[i].server_id = server_id /\ dict[i].alert_type = alert_type}
OpenCount(dict, server_id, alert_type) ==
  Cardinality({i \in SameKey(dict, server_id, alert_type) : dict[i].status = "open"})
IdsOf(dict) == [i \in DOMAIN dict |-> dict[i].id]
\* the alerts with their suppressed_count left out
SansCount(dict) == [i \in DOMAIN dict |-> [dict[i] EXCEPT !.suppressed_count = 0]]

(***************************************************************************)
(* C1: a process_alert call for an alert whose (server_id, alert_type) has *)
(* an unexpired suppression window returns the alert with status           *)
(* SUPPRESSED, does not add it to active_alerts, applies no correlation    *)
(* rule (no rule action runs; groups, windows and history are as before)   *)
(* and does not raise the number of OPEN alerts of that key.               *)
(***************************************************************************)
C1_SuppressedWhileWindowActive ==
  [][ (IngestStep /\ WindowActive(last'.server_id, last'.alert_type))
      => /\ last'.status = "suppressed"
         /\ IdsOf(active_alerts') = IdsOf(active_alerts)
         /\ SansCount(active_alerts') = SansCount(active_alerts)
         /\ last'.applied = <<>>
         /\ correlation_groups' = correlation_groups
         /\ suppression_windows' = suppression_windows
         /\ alert_history' = alert_history
         /\ OpenCount(active_alerts', last'.server_id, last'.alert_type)
              <= OpenCount(active_alerts, last'.server_id, last'.alert_type) ]_vars

\* an ingestion has just been suppressed while an OPEN alert of its key is active
C1_Witness ==
  /\ IsEngine
  /\ last.op = "process_alert"
  /\ last.status = "suppressed"
  /\ WindowActive(last.server_id, last.alert_type)
  /\ OpenCount(active_alerts, last.server_id, last.alert_type) >= 1

esc_severity_order == <<"low", "medium", "high", "critical">>
EscSevIndex(sev) == CHOOSE i \in DOMAIN esc_severity_order : esc_severity_order[i] = sev

C3_SeverityAndLevelMonotone ==
  [][ /\ IsEngine =>
        \A i \in DOMAIN active_alerts, j \in DOMAIN active_alerts' :
          active_alerts[i].id = active_alerts'[j].id
          => /\ SevIndex(active_alerts'[j].severity) >= SevIndex(active_alerts[i].severity)
             /\ active_alerts'[j].escalation_level >= active_alerts[i].escalation_level
      /\ IsEsc =>
        \A id \in DOMAIN alerts :
          /\ EscSevIndex(alert_objects'[alerts'[id]].severity)
               >= EscSevIndex(alert_objects[alerts[id]].severity)
          /\ alert_objects'[alerts'[id]].escalation_level
               >= alert_objects[alerts[id]].escalation_level ]_vars

(***************************************************************************)
(* C4: an alert of AlertEscalationSystem created above the severity floor  *)
(* with a matching rule, never acknowledged or resolved, is escalated tick *)
(* by tick until its escalation_level equals the rule's                    *)
(* max_escalation_levels, and only then does its task end.  (Stated for    *)
(* behaviours in which every call so far was a create_alert, so that no    *)
(* task has been cancelled.)                                               *)
(***************************************************************************)
OnlyCreates == ncalls.calls = Len(alert_objects)

C4_TaskEndsAtMaxLevel ==
  (IsEsc /\ OnlyCreates)
  => \A k \in DOMAIN alert_objects :
       alert_objects[k].task = "done"
       => alert_objects[k].escalation_level
            = escalation_rules[alert_objects[k].rule].max_escalation_levels

(***************************************************************************)
(* C5: the escalation_level of an alert never exceeds the                  *)
(* max_escalation_levels of the rule its task runs under, and every        *)
(* escalation_history row carries a level some task of that alert id has   *)
(* reached within its rule's maximum.                                      *)
(***************************************************************************)
C5_LevelWithinRuleMaximum ==
  IsEsc =>
    /\ \A k \in DOMAIN alert_objects :
         IF alert_objects[k].rule = 0 THEN alert_objects[k].escalation_level = 0
         ELSE alert_objects[k].escalation_level
                <= escalation_rules[alert_objects[k].rule].max_escalation_levels
    /\ \A h \in DOMAIN escalation_history :
         \E k \in DOMAIN alert_objects :
           /\ alert_objects[k].id = escalation_history[h].alert_id
           /\ alert_objects[k].rule # 0
           /\ escalation_history[h].escalation_level >= 1
           /\ escalation_history[h].escalation_level <= alert_objects[k].escalation_level
           /\ escalation_history[h].escalation_level
                <= escalation_rules[alert_objects[k].rule].max_escalation_levels

\* an alert has been escalated to its rule's maximum and the tick is in the history
C5_Witness ==
  /\ IsEsc
  /\ \E k \in DOMAIN alert_objects :
       /\ alert_objects[k].rule # 0
       /\ alert_objects[k].escalation_level
            = escalation_rules[alert_objects[k].rule].max_escalation_levels
       /\ \E h \in DOMAIN escalation_history :
            /\ escalation_history[h].alert_id = alert_objects[k].id
            /\ escalation_history[h].escalation_level = alert_objects[k].escalation_level

(***************************************************************************)
(* C6: once acknowledge_alert or resolve_alert has succeeded for an alert  *)
(* (the alert of that id is ACKNOWLEDGED or RESOLVED), no step of an       *)
(* escalation task changes the alert's escalation_level or status, in      *)
(* memory or in the alerts table, and none appends an escalation_history   *)
(* row (one row per notification dispatched) for that id.                  *)
(***************************************************************************)
HistoryOf(history, id) == SelectSeq(history, LAMBDA h : h.alert_id = id)
Closed(id) == alert_objects[alerts[id]].status \in {"acknowledged", "resolved"}

C6_NoEscalationAfterAcknowledge ==
  [][ (IsEsc /\ ncalls' = ncalls)
      => \A id \in DOMAIN alerts :
           Closed(id)
           => /\ alert_objects'[alerts'[id]].status = alert_objects[alerts[id]].status
              /\ alert_objects'[alerts'[id]].escalation_level
                   = alert_objects[alerts[id]].escalation_level
              /\ persisted'[id] = persisted[id]
              /\ HistoryOf(escalation_history', id) = HistoryOf(escalation_history, id) ]_vars

(***************************************************************************)
(* C7: for every interleaving of acknowledge_alert with the escalation     *)
(* tick of the same alert (every alert id issued once): an acknowledge of  *)
(* an alert not yet ACKNOWLEDGED leaves it ACKNOWLEDGED exactly when it    *)
(* returns success; and once the acknowledge has either succeeded or met   *)
(* an alert its tick has already escalated, no escalation task of that     *)
(* alert is running or registered in escalation_tasks.                     *)
(***************************************************************************)
Running(k) == alert_objects[k].task \in {"created", "sleeping"}
IdsDistinct == Cardinality(DOMAIN alerts) = Len(alert_objects)
AckStep == CallStep /\ last'.op = "acknowledge_alert"

C7_AcknowledgeTickConsistent ==
  [][ (IsEsc /\ IdsDistinct')
      => \A id \in DOMAIN alerts :
           LET k == alerts[id]
           IN  /\ (AckStep /\ last'.id = id /\ alert_objects[k].status # "acknowledged")
                    => ((alert_objects'[k].status = "acknowledged") <=> last'.ok)
               /\ (/\ last'.op = "acknowledge_alert"
                   /\ last'.id = id
                   /\ (last'.ok \/ alert_objects'[k].escalation_level >= 1))
                    => /\ alert_objects'[k].task \notin {"created", "sleeping"}
                       /\ id \notin DOMAIN escalation_tasks' ]_vars

(***************************************************************************)
(* C8: at most one escalation task exists per alert id, and every running  *)
(* task is the one escalation_tasks holds for its alert id.                *)
(***************************************************************************)
C8_OneTaskPerAlertId ==
  IsEsc =>
    \A k \in DOMAIN alert_objects :
      Running(k)
      => /\ alert_objects[k].id \in DOMAIN escalation_tasks
         /\ escalation_tasks[alert_objects[k].id] = k
         /\ \A j \in DOMAIN alert_objects :
              (Running(j) /\ alert_objects[j].id = alert_objects[k].id) => j = k

(***************************************************************************)
(* C9: acknowledge_alert on an alert that is already ACKNOWLEDGED returns  *)
(* failure, leaves the alert unchanged and appends no history row, in both *)
(* classes.                                                                *)
(***************************************************************************)
C9_SecondAcknowledgeFails ==
  [][ /\ (/\ IsEngine /\ AckStep
          /\ \E i \in DOMAIN active_alerts :
               /\ active_alerts[i].id = last'.id
               /\ active_alerts[i].status = "acknowledged")
         => /\ ~last'.ok
            /\ active_alerts' = active_alerts
            /\ alert_history' = alert_history
      /\ (/\ IsEsc /\ AckStep
          /\ last'.id \in DOMAIN alerts
          /\ alert_objects[alerts[last'.id]].status = "acknowledged")
         => /\ ~last'.ok
            /\ alert_objects' = alert_objects
            /\ escalation_history' = escalation_history ]_vars

(***************************************************************************)
(* C10: acknowledge_alert and resolve_alert called with an id that is not  *)
(* known return failure and leave every alert, the correlation groups, the *)
(* suppression windows, the escalation task map and the history unchanged. *)
(***************************************************************************)
OperatorStep == CallStep /\ last'.op \in {"acknowledge_alert", "resolve_alert"}
Unknown(id) == IF IsEngine THEN ~HasId(active_alerts, id) ELSE id \notin DOMAIN alerts

C10_UnknownIdChangesNothing ==
  [][ (OperatorStep /\ Unknown(last'.id))
      => /\ ~last'.ok
         /\ engineVars' = engineVars
         /\ escVars' = escVars ]_vars

\* an operator call on an unknown id has just failed while alerts are on record
C10_Witness ==
  /\ last.op \in {"acknowledge_alert", "resolve_alert"}
  /\ Unknown(last.id)
  /\ ~last.ok
  /\ (active_alerts # <<>> \/ alert_objects # <<>>)

(***************************************************************************)
(* C11: acknowledge_alert or resolve_alert on an alert that is already     *)
(* RESOLVED returns failure, changes nothing (alerts, task map, tables,    *)
(* history), and the value it returns differs from the value the same call *)
(* returns for an id that was never issued.                                *)
(***************************************************************************)
Terminal(id) ==
  IF IsEngine
  THEN /\ ~HasId(active_alerts, id)
       /\ id \in DOMAIN db_alerts
       /\ db_alerts[id].status = "resolved"
  ELSE /\ id \in DOMAIN alerts
       /\ alert_objects[alerts[id]].status = "resolved"

\* the value op(id) returns in the current state
ReturnOf(op, id) ==
  IF IsEngine
  THEN (IF op = "acknowledge_alert" THEN AcknowledgeAlert(EngineState, id).ok
        ELSE ResolveAlert(EngineState, id).ok)
  ELSE (IF op = "acknowledge_alert" THEN EscAcknowledgeReturns(id)
        ELSE EscResolveReturns(id))

NeverIssued == IF IsEngine THEN 0 ELSE UnknownId

C11_TerminalFailsDistinctly ==
  [][ (OperatorStep /\ Terminal(last'.id))
      => /\ ~last'.ok
         /\ engineVars' = engineVars
         /\ escVars' = escVars
         /\ ReturnOf(last'.op, last'.id) # ReturnOf(last'.op, NeverIssued) ]_vars

(***************************************************************************)
(* C12: an escalation tick of AlertEscalationSystem raises the alert's     *)
(* escalation_level by one and leaves its status ACTIVE; the status of an  *)
(* alert changes only in acknowledge_alert and resolve_alert.              *)
(***************************************************************************)
C12_TickKeepsStatusActive ==
  [][ IsEsc
      => \A k \in DOMAIN alert_objects :
           /\ alert_objects'[k].escalation_level # alert_objects[k].escalation_level
                => /\ alert_objects'[k].escalation_level
                        = alert_objects[k].escalation_level + 1
                   /\ alert_objects'[k].status = "active"
           /\ alert_objects'[k].status # alert_objects[k].status
                => OperatorStep ]_vars

(***************************************************************************)
(* C13: in AlertEscalationSystem, acknowledge_alert on a known alert that  *)
(* has been neither acknowledged nor resolved returns success and leaves   *)
(* the alert ACKNOWLEDGED, whatever number of escalation ticks the alert   *)
(* has gone through.                                                       *)
(***************************************************************************)
C13_UnacknowledgedCanBeAcknowledged ==
  [][ (/\ IsEsc /\ AckStep
       /\ last'.id \in DOMAIN alerts
       /\ alert_objects[alerts[last'.id]].status \notin {"acknowledged", "resolved"})
      => /\ last'.ok
         /\ alert_objects'[alerts[last'.id]].status = "acknowledged" ]_vars

(***************************************************************************)
(* C14: when a rule's escalate_severity action runs on the alert being     *)
(* ingested, the alert's escalation_level goes up by 1 (a new alert is at  *)
(* level 0); its severity stays emergency if it was emergency, and         *)
(* otherwise moves exactly one step up info < warning < critical <         *)
(* emergency.                                                              *)
(***************************************************************************)
EscalationsApplied(applied) ==
  Cardinality({i \in DOMAIN applied : applied[i][2] = "escalate_severity"})
StoredAlert(dict, id) == dict[IndexOf(dict, id)]

C14_EscalateSeverityStep ==
  [][ (IngestStep /\ EscalationsApplied(last'.applied) = 1)
      => LET out == StoredAlert(active_alerts', last'.id)
             i == SevIndex(last'.severity)
         IN  /\ out.escalation_level = 1
             /\ out.severity = IF i = Len(severity_order) THEN "emergency"
                               ELSE severity_order[i + 1] ]_vars

(***************************************************************************)
(* C15 as the claim states it: under the cpu-memory rule (alert_types T,   *)
(* time_window W, same_server), whenever alert B of a type in T is         *)
(* ingested while an OPEN alert A of a type in T from the same server has  *)
(* a timestamp within W before B's, then after process_alert(B) A and B    *)
(* carry the same non-null correlation_id.                                 *)
(***************************************************************************)
cpu_memory_rule == default_rules[1]

\* the OPEN alerts of the rule's types on the server, other than id, whose
\* timestamp lies within the rule's window before now
OpenWithinWindow(dict, rule, server_id, id, now) ==
  {i \in DOMAIN dict :
     /\ dict[i].id # id
     /\ dict[i].status = "open"
     /\ dict[i].alert_type \in rule.conditions.alert_types
     /\ dict[i].server_id = server_id
     /\ dict[i].timestamp >= now - rule.conditions.time_window
     /\ dict[i].timestamp <= now}

SameCorrelation(dict, i) ==
  /\ last'.correlation_id # NoCorrelation
  /\ HasId(active_alerts', dict[i].id)
  /\ StoredAlert(active_alerts', dict[i].id).correlation_id = last'.correlation_id

C15_CorrelatedWithinWindow ==
  [][ (IngestStep /\ last'.alert_type \in cpu_memory_rule.conditions.alert_types)
      => \A i \in OpenWithinWindow(active_alerts, cpu_memory_rule,
                                    last'.server_id, last'.id, clock) :
           SameCorrelation(active_alerts, i) ]_vars

(***************************************************************************)
(* C15, amended: the same, for an alert B that is not suppressed (no       *)
(* unexpired suppression window for B's (server_id, alert_type)): then A   *)
(* and B carry the same non-null correlation_id, which is also the one     *)
(* process_alert returns on B.                                             *)
(***************************************************************************)
C15_CorrelatedUnlessSuppressed ==
  [][ (/\ IngestStep
       /\ last'.alert_type \in cpu_memory_rule.conditions.alert_types
       /\ ~WindowActive(last'.server_id, last'.alert_type))
      => /\ last'.status = "open"
         /\ \A i \in OpenWithinWindow(active_alerts, cpu_memory_rule,
                                       last'.server_id, last'.id, clock) :
              SameCorrelation(active_alerts, i) ]_vars

\* memory_high has just been ingested while a cpu_high alert of the same server,
\* ingested earlier, is OPEN: both are in one group of two
C15_Witness ==
  /\ IsEngine
  /\ last.op = "process_alert"
  /\ last.alert_type = "memory_high"
  /\ last.correlation_id # NoCorrelation
  /\ \E i \in DOMAIN active_alerts :
       /\ active_alerts[i].alert_type = "cpu_high"
       /\ active_alerts[i].server_id = last.server_id
       /\ active_alerts[i].timestamp < clock
       /\ active_alerts[i].correlation_id = last.correlation_id
       /\ Len(correlation_groups[last.correlation_id]) = 2

(***************************************************************************)
(* C16 as the claim states it: under the disk_space_low rule               *)
(* (frequency_threshold N = 3, time_window 600 s) escalate_severity and    *)
(* suppress_duplicates run on an ingested alert exactly when it is at      *)
(* least the Nth same-type alert from its server within the window (N - 1  *)
(* others from that server are on record there), and an alert ingested     *)
(* while the window of its (server_id, alert_type) is active is            *)
(* SUPPRESSED.                                                             *)
(***************************************************************************)
disk_space_rule == default_rules[3]

Fired(applied, rule, name) == \E i \in DOMAIN applied : applied[i] = <<rule.id, name>>
FrequencyActionsFired(applied) ==
  /\ Fired(applied, disk_space_rule, "escalate_severity")
  /\ Fired(applied, disk_space_rule, "suppress_duplicates")
NoFrequencyActionFired(applied) ==
  /\ ~Fired(applied, disk_space_rule, "escalate_severity")
  /\ ~Fired(applied, disk_space_rule, "suppress_duplicates")

\* the alerts of the type, other than id, with a timestamp within the rule's
\* window before now
SameTypeWithinWindow(dict, rule, alert_type, id, now) ==
  {i \in DOMAIN dict :
     /\ dict[i].id # id
     /\ dict[i].alert_type = alert_type
     /\ dict[i].timestamp >= now - rule.conditions.time_window
     /\ dict[i].timestamp <= now}

DiskIngestStep ==
  /\ IngestStep
  /\ last'.alert_type \in disk_space_rule.conditions.alert_types
  /\ ~WindowActive(last'.server_id, last'.alert_type)

SuppressedWhileActive ==
  (IngestStep /\ WindowActive(last'.server_id, last'.alert_type))
  => last'.status = "suppressed"

IsDispatch == component = "dispatch"
Smaller(a, b) == IF a < b THEN a ELSE b
Eligible(contacts, level) ==
  {i \in DOMAIN contacts :
     contacts[i].active /\ contacts[i].priority <= Smaller(level, 3)}

C19_DispatchFailureIsNotFatal ==
  /\ \A c \in ContactShapes \cup [method : {"sms", "slack", "webhook"},
                                  priority : {1}, active : {TRUE}],
       o \in SenderOutcomes :
       /\ ~SendNotificationVia(c, o).raised
       /\ SendNotificationVia(c, o).value \in BOOLEAN
       /\ SendNotificationVia(c, o).value
            => (o = "true" /\ c.method \in {"email", "sms", "slack", "webhook"})
  /\ (IsDispatch /\ dispatch.ticks >= 1)
       => /\ ~dispatch.raised
          /\ dispatch.completed
          /\ Len(dispatch.returned) = Len(dispatch.selected)

\* the first attempt of an escalation failed on a method without a sender
\* and the second contact was notified all the same
C19_Witness ==
  /\ IsDispatch
  /\ dispatch.ticks >= 1
  /\ Len(dispatch.selected) = 2
  /\ dispatch.selected[1].method = "phone_call"
  /\ dispatch.returned = <<FALSE, TRUE>>
  /\ dispatch.completed

(***************************************************************************)
(* C20: when the persistence write of process_alert / create_alert,        *)
(* acknowledge_alert or resolve_alert fails, the call reports the failure  *)
(* to its caller (it raises, or returns failure), and active_alerts /      *)
(* alerts, the status of every alert in them and escalation_tasks are the  *)
(* same as before the call.                                                *)
(***************************************************************************)
StatusOf(objs, map) == [id \in DOMAIN map |-> objs[map[id]].status]

C20_StoreFailureAborts ==
  [][ (CallStep /\ last'.store_failed)
      => /\ last'.raised \/ ~last'.ok
         /\ active_alerts' = active_alerts
         /\ alerts' = alerts
         /\ StatusOf(alert_objects', alerts') = StatusOf(alert_objects, alerts)
         /\ escalation_tasks' = escalation_tasks ]_vars

(***************************************************************************)
(* C21: when _rule_matches or an action of one rule raises inside          *)
(* _apply_correlation_rules, process_alert still returns the alert, which  *)
(* is in active_alerts with status OPEN, and _rule_matches has been called *)
(* for every enabled rule, in ascending priority order with ties in the    *)
(* order of correlation_rules.                                             *)
(***************************************************************************)
RuleIndex(id) == CHOOSE i \in DOMAIN correlation_rules : correlation_rules[i].id = id
EnabledRules == {i \in DOMAIN correlation_rules : correlation_rules[i].enabled}

\* ev lists the enabled rules, each once, by priority and then by position
InRuleOrder(ev) ==
  /\ Len(ev) = Cardinality(EnabledRules)
  /\ Range(ev) = {correlation_rules[i].id : i \in EnabledRules}
  /\ \A j, k \in DOMAIN ev :
       j < k => LET rj == RuleIndex(ev[j])
                    rk == RuleIndex(ev[k])
                IN  \/ correlation_rules[rj].priority < correlation_rules[rk].priority
                    \/ /\ correlation_rules[rj].priority = correlation_rules[rk].priority
                       /\ rj < rk

C21_RuleErrorIsolated ==
  [][ (IngestStep /\ last'.status # "suppressed")
      => /\ last'.ok /\ ~last'.raised
         /\ last'.status = "open"
         /\ HasId(active_alerts', last'.id)
         /\ StoredAlert(active_alerts', last'.id).status = "open"
         /\ InRuleOrder(last'.evaluated) ]_vars

\* the rule evaluated first raised, and an action of a rule evaluated after it
\* has run on the alert
C21_Witness ==
  /\ IsEngine
  /\ last.op = "process_alert"
  /\ Len(last.errors) = 1
  /\ Len(last.evaluated) = 3
  /\ last.errors[1][1] = last.evaluated[1]
  /\ \E i \in DOMAIN last.applied : last.applied[i][1] = last.evaluated[2]
  /\ HasId(active_alerts, last.id)

(***************************************************************************)
(* C22: the actions a matching rule runs on an alert are its enabled       *)
(* actions in the order create_correlation, escalate_severity,             *)
(* suppress_duplicates, notify, create ticket, identify_root_cause; and    *)
(* when one of them raises, the enabled actions after it in that order     *)
(* have run all the same.                                                  *)
(***************************************************************************)
OrderIndex(name) == CHOOSE k \in DOMAIN action_order : action_order[k] = name
ActionsOf(applied, rule_id) ==
  SelectSeq(applied, LAMBDA e : e[1] = rule_id)

C22_ActionsIsolated ==
  [][ IngestStep
      => /\ \A i \in DOMAIN correlation_rules :
              LET ran == ActionsOf(last'.applied, correlation_rules[i].id)
              IN  /\ \A k \in DOMAIN ran : ran[k][2] \in correlation_rules[i].actions
                  /\ \A j, k \in DOMAIN ran :
                       j < k => OrderIndex(ran[j][2]) < OrderIndex(ran[k][2])
         /\ \A e \in DOMAIN last'.errors :
              LET fault == last'.errors[e]
                  rule == correlation_rules[RuleIndex(fault[1])]
              IN  fault[2] # "match"
                  => \A name \in rule.actions \cap Range(action_order) :
                       OrderIndex(name) > OrderIndex(fault[2])
                         => Fired(last'.applied, rule, name) ]_vars

(***************************************************************************)
(* C23: a request to ingest a payload that lacks one of source, server_id, *)
(* server_name, alert_type, severity, message, or whose severity is not    *)
(* one of info, warning, critical, emergency, is answered with a client    *)
(* error (a status 400..499) and leaves active_alerts, correlation_groups, *)
(* suppression_windows and the tables as they were.                        *)
(***************************************************************************)
C23_InvalidPayloadRejected ==
  [][ (/\ IsEngine /\ CallStep /\ last'.op = "submit_alert"
       /\ \/ last'.missing \cap required_fields # {}
          \/ last'.severity \notin {"info", "warning", "critical", "emergency"})
      => /\ last'.http \in 400..499
         /\ engineVars' = engineVars ]_vars

(***************************************************************************)
(* C24: _rule_matches(alert, rule) is true exactly when the alert's type   *)
(* is among the rule's alert_types (if set) and, if time_window is set,    *)
(* the alerts other than the alert itself that are OPEN and have a         *)
(* timestamp within [alert.timestamp - window, alert.timestamp] (and the   *)
(* alert's server, under same_server) number at least minimum_count - 1    *)
(* (if set) and those of them of the alert's type at least                 *)
(* frequency_threshold - 1 (if set).                                       *)
(***************************************************************************)
CountedWithinWindow(dict, a, rule) ==
  {i \in DOMAIN dict :
     /\ dict[i].id # a.id
     /\ dict[i].status = "open"
     /\ dict[i].timestamp >= a.timestamp - rule.conditions.time_window
     /\ dict[i].timestamp <= a.timestamp
     /\ (Has(rule.conditions, "same_server") /\ rule.conditions.same_server)
          => dict[i].server_id = a.server_id}

MatchesWithinWindow(dict, a, rule) ==
  LET c == rule.conditions
  IN  /\ Has(c, "alert_types") => a.alert_type \in c.alert_types
      /\ Has(c, "time_window") =>
           LET counted == CountedWithinWindow(dict, a, rule)
           IN  /\ Has(c, "minimum_count")
                    => Cardinality(counted) >= c.minimum_count - 1
               /\ Has(c, "frequency_threshold")
                    => Cardinality({i \in counted : dict[i].alert_type = a.alert_type})
                         >= c.frequency_threshold - 1

C24_RuleMatchesWithinWindow ==
  [][ (IngestStep /\ last'.status # "suppressed")
      => \A i \in DOMAIN correlation_rules :
           LET rule == correlation_rules[i]
               a == [StoredAlert(active_alerts', last'.id) EXCEPT !.severity = last'.severity]
           IN  rule.enabled
               => (rule.id \in Range(last'.matched)
                     <=> MatchesWithinWindow(active_alerts, a, rule)) ]_vars

(***************************************************************************)
(* C25: the wait before an escalation is escalation_delay_minutes * 60     *)
(* seconds when the alert's severity is not CRITICAL or its                *)
(* escalation_level is 0, and max(floor(base / 2), 300) seconds when the   *)
(* severity is CRITICAL and the escalation_level is above 0.               *)
(***************************************************************************)
IsMonitor == component = "monitor"
BaseDelay == monitor.rule.escalation_delay_minutes * 60
Larger(a, b) == IF a > b THEN a ELSE b

C25_DelayPolicy ==
  (IsMonitor /\ monitor.waits >= 1)
  => monitor.delay_seconds
       = IF monitor.alert.severity # "critical" \/ monitor.level_at_wait = 0
         THEN BaseDelay
         ELSE Larger(BaseDelay \div 2, 300)

\* a CRITICAL alert under a 15-minute rule has waited 900 s at level 0 and
\* then 450 s at level 1
C25_Witness ==
  /\ IsMonitor
  /\ monitor.alert.severity = "critical"
  /\ monitor.rule.escalation_delay_minutes = 15
  /\ monitor.level_at_wait = 1
  /\ monitor.delay_seconds = 450
  /\ clock = 1350

C27_NoClosedAlertInActiveAlerts ==
  [][ IsEngine
      => /\ \A i \in DOMAIN active_alerts' :
              active_alerts'[i].status \notin {"resolved", "suppressed"}
         /\ SuppressStep => IdsOf(active_alerts') = IdsOf(active_alerts)
         /\ (CallStep /\ last'.op = "resolve_alert" /\ last'.ok)
              => ~HasId(active_alerts', last'.id) ]_vars

\* an alert has just been resolved: its row says so, it is gone from
\* active_alerts, and another alert is still there
C27_Witness ==
  /\ IsEngine
  /\ last.op = "resolve_alert" /\ last.ok
  /\ ~HasId(active_alerts, last.id)
  /\ db_alerts[last.id].status = "resolved"
  /\ Len(active_alerts) >= 1

(***************************************************************************)
(* C28: in every reachable state of the engine, an alert in active_alerts  *)
(* with a non-null correlation_id g is among the members of                *)
(* correlation_groups[g], and the alerts carrying one correlation_id were  *)
(* grouped by one application of one rule: under the same_server rule      *)
(* cpu-memory-correlation they are all from one server, also when the rule *)
(* makes groups for two servers within one second.                         *)
(***************************************************************************)
C28_CorrelationIdNamesOneGroup ==
  IsEngine =>
    /\ \A i \in DOMAIN active_alerts :
         LET g == active_alerts[i].correlation_id
         IN  g # NoCorrelation
             => /\ g \in DOMAIN correlation_groups
                /\ active_alerts[i].id \in Range(correlation_groups[g])
    /\ \A i, j \in DOMAIN active_alerts :
         (/\ active_alerts[i].correlation_id # NoCorrelation
          /\ active_alerts[i].correlation_id = active_alerts[j].correlation_id
          /\ active_alerts[i].correlation_id[1] = cpu_memory_rule.id)
         => active_alerts[i].server_id = active_alerts[j].server_id

(***************************************************************************)
(* C29: every group in correlation_groups has at least two members; and    *)
(* ingesting an alert of the cpu-memory rule's types while no other OPEN   *)
(* alert of its server and of those types is within the rule's window      *)
(* makes no group, leaves the alert without correlation_id and does not    *)
(* run the rule's escalate_severity or suppress_duplicates on it.          *)
(***************************************************************************)
C29_GroupsHaveTwoMembers ==
  [][ IsEngine
      => /\ \A g \in DOMAIN correlation_groups' : Len(correlation_groups'[g]) >= 2
         /\ (/\ IngestStep
             /\ last'.status # "suppressed"
             /\ last'.alert_type \in cpu_memory_rule.conditions.alert_types
             /\ OpenWithinWindow(active_alerts, cpu_memory_rule, last'.server_id,
                                 last'.id, clock) = {})
            => /\ correlation_groups' = correlation_groups
               /\ last'.correlation_id = NoCorrelation
               /\ ~Fired(last'.applied, cpu_memory_rule, "escalate_severity")
               /\ ~Fired(last'.applied, cpu_memory_rule, "suppress_duplicates") ]_vars

(***************************************************************************)
(* C30: in every reachable state of the escalation system,                 *)
(* escalation_tasks holds a handle for an alert id only while the task     *)
(* behind the handle has not finished, so that len(escalation_tasks), the  *)
(* running_tasks figure of get_alert_statistics, is the number of tasks    *)
(* that are running.                                                       *)
(***************************************************************************)
RunningTasksFigure == Cardinality(DOMAIN escalation_tasks)
Unfinished(k) == alert_objects[k].task \in {"created", "sleeping", "cancelling"}

C30_HandlesOnlyForRunningTasks ==
  IsEsc =>
    /\ \A id \in DOMAIN escalation_tasks : Unfinished(escalation_tasks[id])
    /\ RunningTasksFigure = Cardinality({k \in DOMAIN alert_objects : Unfinished(k)})

====
